---- MODULE Spec2Model ----
(***************************************************************************)
(* Model of the FishFight presentation components                          *)
(*   src/src/components/animation_player.rs   (AnimationPlayer)            *)
(*   src/src/components/sprite.rs             (Sprite)                     *)
(* AnimationPlayer delegates its playback state to macroquad's             *)
(* AnimatedSprite; the operations it calls on it are modelled below next   *)
(* to the call sites.  Vec2 / UVec2 / Rect values are tuples of integers   *)
(* (all modelled quantities are small integers, exact in f32); elapsed     *)
(* time is counted in milliseconds.                                        *)
(***************************************************************************)
EXTENDS Integers, Sequences, FiniteSets, TLC

VARIABLES
    built,    \* which component this behaviour constructed: "none", "AnimationPlayer", "Sprite"
    player,   \* the AnimationPlayer (fields of the struct, sprite = AnimatedSprite)
    sprite,   \* the Sprite (fields of the struct)
    panic,    \* "" or the message of the panic that ended the program
    drawn,    \* draw calls issued to the rendering backend by the last operation
    last,     \* the last operation, its arguments and its return value
    DEBUG     \* crate::DEBUG, a build constant

vars == <<built, player, sprite, panic, drawn, last, DEBUG>>

----------------------------------------------------------------------------
(* Bounds *)
MaxAnims == 2        \* longest animation list passed to AnimationPlayer::new
MaxFrameArg == 2     \* largest argument of set_frame
TimeCap == 300       \* f32 accumulator stops growing (ms); at least every 1/fps + delta
MaxTex == 3          \* largest texture width / height given to Sprite::new
MaxCell == 2         \* largest cell width / height given to Sprite::new
MaxIndex == 4        \* largest sprite index given to Sprite::new
MaxScale == 2        \* largest scale factor

(* Option<T> *)
None == <<>>
Some(x) == <<x>>
IsSome(o) == o # <<>>
Unwrap(o) == o[1]

(* Input domains *)
Ids == {"idle", "run"}
OtherIds == {"jump"}
Rows == {1}
FramesSet == {0, 2, 3}
FpsSet == {0, 10}
Deltas == {100, 200}                 \* get_frame_time() per tick, ms
Positions == {<<3, 5>>}
Rotations == {0}

\* Animation (animation_player.rs:15-20)
\* (a still animation, fps 0, is taken with 2 frames only)
Animation ==
    {a \in [id : Ids, row : Rows, frames : FramesSet, fps : FpsSet] : a.fps = 0 => a.frames = 2}

RECURSIVE SeqsUpTo(_, _)
SeqsUpTo(S, n) ==
    IF n = 0 THEN {<<>>}
    ELSE LET shorter == SeqsUpTo(S, n - 1)
         IN  shorter \cup {Append(s, x) : s \in {t \in shorter : Len(t) = n - 1}, x \in S}

AnimationLists == SeqsUpTo(Animation, MaxAnims)

\* resources.textures.get(&id): the registry is external, so the result of
\* the lookup is an input: None, or a texture with its metadata
PlayerTextureResources ==
    {[texture |-> [width |-> 8, height |-> 4], meta |-> [sprite_size |-> Some(<<4, 2>>)]],
     [texture |-> [width |-> 4, height |-> 4], meta |-> [sprite_size |-> None]]}

WHITE == "WHITE"
BLUE == "BLUE"

\* AnimationParams (animation_player.rs:34-56)
AnimationParams ==
    [texture_id : {"player_sheet"},
     offset : {<<1, 0>>},
     pivot : {<<1, 2>>},
     frame_size : {None, Some(<<2, 2>>)},
     tint : {None},
     animations : AnimationLists,
     is_deactivated : BOOLEAN]

----------------------------------------------------------------------------
(* macroquad AnimatedSprite, as used by AnimationPlayer *)

\* impl From<Animation> for MQAnimation
MQAnimationFrom(a) == [name |-> a.id, row |-> a.row, frames |-> a.frames, fps |-> a.fps]

\* AnimatedSprite::new(tile_width, tile_height, &animations, playing)
AnimatedSpriteNew(tile_width, tile_height, animations, playing) ==
    [tile_width |-> tile_width,
     tile_height |-> tile_height,
     animations |-> animations,
     current_animation |-> 0,
     time |-> 0,
     frame |-> 0,
     playing |-> playing]

\* Vec indices are 0-based in the code; sequences are 1-based here
At(s, i) == s[i + 1]

NullPlayer == [texture |-> None]
NullSprite == [texture |-> None]
NoOp == [op |-> "none"]

Init ==
    /\ built = "none"
    /\ player = NullPlayer
    /\ sprite = NullSprite
    /\ panic = ""
    /\ drawn = <<>>
    /\ last = NoOp
    /\ DEBUG \in BOOLEAN

----------------------------------------------------------------------------
(* AnimationPlayer *)

\* one component is constructed per behaviour (the two share no state)
Unbuilt == built = "none" /\ panic = ""

Op(name, arg, ret) == [op |-> name, arg |-> arg, ret |-> ret]

Panic(msg, name, arg) ==
    /\ panic' = msg
    /\ last' = Op(name, arg, None)
    /\ drawn' = <<>>
    /\ UNCHANGED <<built, player, sprite, DEBUG>>

\* the duplicate check of AnimationPlayer::new: ids seen so far are pushed to
\* `ids`, and an animation whose id is already there fails the assertion
RECURSIVE HasDuplicateFrom(_, _, _)
HasDuplicateFrom(animations, i, ids) ==
    IF i > Len(animations) THEN FALSE
    ELSE IF animations[i].id \in ids THEN TRUE
    ELSE HasDuplicateFrom(animations, i + 1, ids \cup {animations[i].id})

\* HasDuplicate that never records the first id
HasDuplicate_SkipFirst(animations) == HasDuplicateFrom(animations, 2, {})

HasDuplicate(animations) == HasDuplicateFrom(animations, 1, {})

MapMQ(animations) == [i \in 1..Len(animations) |-> MQAnimationFrom(animations[i])]

PlayerFrameSize(params, res) ==
    IF IsSome(params.frame_size) THEN Unwrap(params.frame_size)
    ELSE IF IsSome(res.meta.sprite_size) THEN Unwrap(res.meta.sprite_size)
    ELSE <<res.texture.width, res.texture.height>>

AnimationPlayerNew(params, lookup) ==
    LET arg == [params |-> params, lookup |-> lookup] IN
    /\ Unbuilt
    /\ IF ~IsSome(lookup)
          THEN Panic("AnimationPlayer: Invalid texture id", "AnimationPlayer::new", arg)
       ELSE IF params.animations = <<>>
          THEN Panic("AnimationPlayer: One or more animations are required",
                     "AnimationPlayer::new", arg)
       ELSE IF HasDuplicate(params.animations)
          THEN Panic("AnimationPlayer: Invalid animation id (duplicate)",
                     "AnimationPlayer::new", arg)
       ELSE LET res == Unwrap(lookup)
                frame_size == PlayerFrameSize(params, res)
            IN  /\ built' = "AnimationPlayer"
                /\ player' = [texture |-> res.texture,
                              offset |-> params.offset,
                              pivot |-> params.pivot,
                              tint |-> IF IsSome(params.tint) THEN Unwrap(params.tint) ELSE WHITE,
                              sprite |-> AnimatedSpriteNew(frame_size[1], frame_size[2],
                                                           MapMQ(params.animations),
                                                           ~params.is_deactivated),
                              animations |-> params.animations,
                              is_deactivated |-> params.is_deactivated]
                /\ last' = Op("AnimationPlayer::new", arg, None)
                /\ drawn' = <<>>
                /\ UNCHANGED <<sprite, panic, DEBUG>>

PlayerLive == built = "AnimationPlayer" /\ panic = ""

Min(a, b) == IF a < b THEN a ELSE b

\* `self.time > 1. / animation.fps as f32`, time in ms; 1/0 is +inf
TimeExceeds(time, fps) == fps # 0 /\ time * fps > 1000

\* SpriteTick advancing two frames per elapsed interval
SpriteTick_Skip(s, dt) ==
    IF s.playing
    THEN LET t == Min(s.time + dt, TimeCap)
         IN  IF TimeExceeds(t, At(s.animations, s.current_animation).fps)
             THEN [s EXCEPT !.frame = @ + 2, !.time = 0]
             ELSE [s EXCEPT !.time = t]
    ELSE s

\* SpriteTick stopping on the last frame instead of running into the wrap
SpriteTick_Clamp(s, dt) ==
    IF s.playing
    THEN LET t == Min(s.time + dt, TimeCap)
             animation == At(s.animations, s.current_animation)
         IN  IF TimeExceeds(t, animation.fps)
             THEN [s EXCEPT !.frame = IF @ + 1 >= animation.frames THEN @ ELSE @ + 1,
                            !.time = 0]
             ELSE [s EXCEPT !.time = t]
    ELSE s

\* AnimatedSprite::update with get_frame_time() = dt; the state before the
\* final `frame %= animation.frames`
SpriteTick(s, dt) ==
    IF s.playing
    THEN LET t == Min(s.time + dt, TimeCap)
         IN  IF TimeExceeds(t, At(s.animations, s.current_animation).fps)
             THEN [s EXCEPT !.frame = @ + 1, !.time = 0]
             ELSE [s EXCEPT !.time = t]
    ELSE s

Update(dt) ==
    /\ PlayerLive
    /\ IF ~player.is_deactivated
       THEN LET animation == At(player.sprite.animations, player.sprite.current_animation)
                s == SpriteTick(player.sprite, dt)
            IN  IF animation.frames = 0
                THEN Panic("attempt to calculate the remainder with a divisor of zero",
                           "update", dt)
                ELSE /\ player' = [player EXCEPT !.sprite = [s EXCEPT !.frame = @ % animation.frames]]
                     /\ last' = Op("update", dt, None)
                     /\ drawn' = <<>>
                     /\ UNCHANGED <<built, sprite, panic, DEBUG>>
       ELSE /\ last' = Op("update", dt, None)
            /\ drawn' = <<>>
            /\ UNCHANGED <<built, player, sprite, panic, DEBUG>>

\* AnimatedSprite::frame()
Frame(s) ==
    LET animation == At(s.animations, s.current_animation)
    IN  [source_rect |-> <<s.tile_width * s.frame, s.tile_height * animation.row,
                           s.tile_width, s.tile_height>>,
         dest_size |-> <<s.tile_width, s.tile_height>>]

GetSize(p) == Frame(p.sprite).dest_size

\* DrawPivot mirroring the y coordinate in the width
DrawPivot_WrongAxis(p, flip_x, flip_y) ==
    LET size == Frame(p.sprite).dest_size
    IN  <<IF flip_x THEN size[1] - p.pivot[1] ELSE p.pivot[1],
          IF flip_y THEN size[1] - p.pivot[2] ELSE p.pivot[2]>>

DrawPivot(p, flip_x, flip_y) ==
    LET size == GetSize(p)
    IN  <<IF flip_x THEN size[1] - p.pivot[1] ELSE p.pivot[1],
          IF flip_y THEN size[2] - p.pivot[2] ELSE p.pivot[2]>>

DrawTextureEx(texture, x, y, tint, flip_x, flip_y, rotation, source, dest_size, pivot) ==
    [call |-> "draw_texture_ex", texture |-> texture, x |-> x, y |-> y, tint |-> tint,
     flip_x |-> flip_x, flip_y |-> flip_y, rotation |-> rotation,
     source |-> source, dest_size |-> dest_size, pivot |-> pivot]

DrawRectangleLines(x, y, w, h, thickness, color) ==
    [call |-> "draw_rectangle_lines", x |-> x, y |-> y, w |-> w, h |-> h,
     thickness |-> thickness, color |-> color]

PlayerDrawCalls(p, position, rotation, flip_x, flip_y) ==
    IF ~p.is_deactivated
    THEN LET size == GetSize(p)
             tex == DrawTextureEx(p.texture, position[1] + p.offset[1],
                                  position[2] + p.offset[2], p.tint, flip_x, flip_y,
                                  rotation, Some(Frame(p.sprite).source_rect), Some(size),
                                  Some(DrawPivot(p, flip_x, flip_y)))
         IN  IF DEBUG
             THEN <<tex, DrawRectangleLines(position[1] + p.offset[1],
                                            position[2] + p.offset[2],
                                            size[1], size[2], 2, BLUE)>>
             ELSE <<tex>>
    ELSE <<>>

Draw(position, rotation, flip_x, flip_y) ==
    /\ PlayerLive
    /\ drawn' = PlayerDrawCalls(player, position, rotation, flip_x, flip_y)
    /\ last' = Op("draw", <<position, rotation, flip_x, flip_y>>, None)
    /\ UNCHANGED <<built, player, sprite, panic, DEBUG>>

GetSizeOp ==
    /\ PlayerLive
    /\ last' = Op("get_size", None, GetSize(player))
    /\ drawn' = <<>>
    /\ UNCHANGED <<built, player, sprite, panic, DEBUG>>

\* self.animations.iter().enumerate().find(|(_, a)| a.id == id): first match
RECURSIVE FindFrom(_, _, _)
FindFrom(animations, id, i) ==
    IF i > Len(animations) THEN None
    ELSE IF animations[i].id = id THEN Some(<<i - 1, animations[i]>>)
    ELSE FindFrom(animations, id, i + 1)

\* Find falling back to the first animation on a miss
Find_FallsBack(animations, id) ==
    LET res == FindFrom(animations, id, 1)
    IN  IF IsSome(res) THEN res ELSE Some(<<0, animations[1]>>)

Find(animations, id) == FindFrom(animations, id, 1)

GetAnimationResult(p, id) ==
    LET res == Find(p.animations, id)
    IN  IF IsSome(res) THEN Some(Unwrap(res)[2]) ELSE None

GetAnimation(id) ==
    /\ PlayerLive
    /\ last' = Op("get_animation", id, GetAnimationResult(player, id))
    /\ drawn' = <<>>
    /\ UNCHANGED <<built, player, sprite, panic, DEBUG>>

\* SpriteSelect dropping the new index
SpriteSelect_Stale(s, i) == s

\* AnimatedSprite::set_animation(i); the state before `frame %= animation.frames`
SpriteSelect(s, i) == [s EXCEPT !.current_animation = i]

SetAnimation(id) ==
    /\ PlayerLive
    /\ LET res == Find(player.animations, id)
       IN  IF IsSome(res)
           THEN LET i == Unwrap(res)[1]
                    animation == Unwrap(res)[2]
                    s == SpriteSelect(player.sprite, i)
                    frames == At(s.animations, i).frames
                IN  IF frames = 0
                    THEN Panic("attempt to calculate the remainder with a divisor of zero",
                               "set_animation", id)
                    ELSE /\ player' = [player EXCEPT !.sprite = [s EXCEPT !.frame = @ % frames]]
                         /\ last' = Op("set_animation", id, Some(animation))
                         /\ drawn' = <<>>
                         /\ UNCHANGED <<built, sprite, panic, DEBUG>>
           ELSE /\ last' = Op("set_animation", id, None)
                /\ drawn' = <<>>
                /\ UNCHANGED <<built, player, sprite, panic, DEBUG>>

\* AnimatedSprite::set_frame(frame as u32)
SpriteSetFrame(s, frame) == [s EXCEPT !.frame = frame]

SetFrame(frame) ==
    /\ PlayerLive
    /\ player' = [player EXCEPT !.sprite = SpriteSetFrame(@, frame)]
    /\ last' = Op("set_frame", frame, None)
    /\ drawn' = <<>>
    /\ UNCHANGED <<built, sprite, panic, DEBUG>>

SetPlaying(p, b) == [p EXCEPT !.sprite.playing = b]

Play ==
    /\ PlayerLive
    /\ player' = SetPlaying(player, TRUE)
    /\ last' = Op("play", None, None)
    /\ drawn' = <<>>
    /\ UNCHANGED <<built, sprite, panic, DEBUG>>

Stop ==
    /\ PlayerLive
    /\ player' = SetPlaying(player, FALSE)
    /\ last' = Op("stop", None, None)
    /\ drawn' = <<>>
    /\ UNCHANGED <<built, sprite, panic, DEBUG>>

IsPlayingResult(p) == ~p.is_deactivated /\ p.sprite.playing

IsPlaying ==
    /\ PlayerLive
    /\ last' = Op("is_playing", None, IsPlayingResult(player))
    /\ drawn' = <<>>
    /\ UNCHANGED <<built, player, sprite, panic, DEBUG>>

\* `pub is_deactivated`: callers write the field directly
SetDeactivated(b) ==
    /\ PlayerLive
    /\ player.is_deactivated # b
    /\ player' = [player EXCEPT !.is_deactivated = b]
    /\ last' = Op("is_deactivated =", b, None)
    /\ drawn' = <<>>
    /\ UNCHANGED <<built, sprite, panic, DEBUG>>

PlayerConstruct ==
    /\ Unbuilt
    /\ \E params \in AnimationParams,
          lookup \in {None} \cup {Some(r) : r \in PlayerTextureResources} :
          AnimationPlayerNew(params, lookup)

PlayerNext ==
    \/ PlayerConstruct
    \/ \E dt \in Deltas : Update(dt)
    \/ \E position \in Positions, rotation \in Rotations, flip_x \in BOOLEAN, flip_y \in BOOLEAN :
          Draw(position, rotation, flip_x, flip_y)
    \/ \E id \in Ids \cup OtherIds : GetAnimation(id)
    \/ \E id \in Ids \cup OtherIds : SetAnimation(id)
    \/ \E frame \in 0..MaxFrameArg : SetFrame(frame)
    \/ Play
    \/ Stop
    \/ IsPlaying
    \/ GetSizeOp
    \/ \E b \in BOOLEAN : SetDeactivated(b)

----------------------------------------------------------------------------
(* Sprite *)

SpriteTextureResources ==
    [texture : [width : 1..MaxTex, height : 1..MaxTex],
     meta : [sprite_size : {None, Some(<<2, 1>>)}]]

\* SpriteParams (sprite.rs:9-51)
SpriteParams ==
    [texture_id : {"sprite_sheet"},
     index : 0..MaxIndex,
     scale : 1..MaxScale,
     offset : {<<1, 0>>},
     pivot : {None, Some(<<1, 2>>)},
     size : {None} \cup {Some(<<w, h>>) : w \in 0..MaxCell, h \in 0..MaxCell},
     tint : {None},
     is_deactivated : BOOLEAN]

\* u32 values of 2^31 and above are written in two's complement (v - 2^32),
\* so u32::MAX is -1; every other value of the model is a small natural
U32_MAX == 0 - 1

\* (a / b) as u32 on f32 operands: x/0 is +inf and saturates, 0/0 is NaN -> 0
F32DivAsU32(a, b) ==
    IF b = 0 THEN (IF a = 0 THEN 0 ELSE U32_MAX) ELSE a \div b

\* x * y on u32 exceeds u32::MAX (one operand is a small natural or u32::MAX)
MulOverflows(x, y) ==
    \/ x = U32_MAX /\ y \notin {0, 1}
    \/ y = U32_MAX /\ x \notin {0, 1}

\* the product modulo 2^32, in two's complement
WrappingMul(x, y) == x * y

\* index < (cnt as usize), index a small natural
LtUsize(index, cnt) == IF cnt < 0 THEN TRUE ELSE index < cnt

RemU32(a, b) == IF b < 0 THEN a ELSE a % b
DivU32(a, b) == IF b < 0 THEN 0 ELSE a \div b

SpriteSize(params, res) ==
    IF IsSome(params.size) THEN Unwrap(params.size)
    ELSE IF IsSome(res.meta.sprite_size) THEN Unwrap(res.meta.sprite_size)
    ELSE <<res.texture.width, res.texture.height>>

GridSize(res, sprite_size) ==
    <<F32DivAsU32(res.texture.width, sprite_size[1]),
      F32DivAsU32(res.texture.height, sprite_size[2])>>

\* SourceRect dividing by the grid height
SourceRect_WrongDivisor(index, grid_size, sprite_size) ==
    <<RemU32(index, grid_size[1]) * sprite_size[1],
      DivU32(index, grid_size[2]) * sprite_size[2],
      sprite_size[1], sprite_size[2]>>

SourceRect(index, grid_size, sprite_size) ==
    <<RemU32(index, grid_size[1]) * sprite_size[1],
      DivU32(index, grid_size[1]) * sprite_size[2],
      sprite_size[1], sprite_size[2]>>

\* overflow_checks: whether the build panics on integer overflow
SpriteNew(params, lookup, overflow_checks) ==
    LET arg == [params |-> params, lookup |-> lookup, overflow_checks |-> overflow_checks] IN
    /\ Unbuilt
    /\ IF ~IsSome(lookup)
       THEN Panic("Sprite: Invalid texture ID", "Sprite::new", arg)
       ELSE LET res == Unwrap(lookup)
                sprite_size == SpriteSize(params, res)
                grid_size == GridSize(res, sprite_size)
                frame_cnt == WrappingMul(grid_size[1], grid_size[2])
            IN  IF MulOverflows(grid_size[1], grid_size[2]) /\ overflow_checks
                THEN Panic("attempt to multiply with overflow", "Sprite::new", arg)
                ELSE IF ~LtUsize(params.index, frame_cnt)
                THEN Panic("Sprite: index exceeds total frame count", "Sprite::new", arg)
                ELSE /\ built' = "Sprite"
                     /\ sprite' = [texture |-> res.texture,
                                   source_rect |-> SourceRect(params.index, grid_size, sprite_size),
                                   tint |-> IF IsSome(params.tint) THEN Unwrap(params.tint) ELSE WHITE,
                                   scale |-> params.scale,
                                   offset |-> params.offset,
                                   pivot |-> params.pivot,
                                   is_deactivated |-> params.is_deactivated]
                     /\ last' = Op("Sprite::new", arg, None)
                     /\ drawn' = <<>>
                     /\ UNCHANGED <<player, panic, DEBUG>>

SpriteLive == built = "Sprite" /\ panic = ""

SpriteGetSize(sp) == <<sp.source_rect[3] * sp.scale, sp.source_rect[4] * sp.scale>>

\* SpriteDrawCalls ignoring is_deactivated
SpriteDrawCalls_Always(sp, position, rotation, flip_x, flip_y) ==
    <<DrawTextureEx(sp.texture, position[1] + sp.offset[1], position[2] + sp.offset[2],
                    sp.tint, flip_x, flip_y, rotation, Some(sp.source_rect),
                    Some(SpriteGetSize(sp)), sp.pivot)>>

SpriteDrawCalls(sp, position, rotation, flip_x, flip_y) ==
    IF ~sp.is_deactivated
    THEN <<DrawTextureEx(sp.texture, position[1] + sp.offset[1], position[2] + sp.offset[2],
                         sp.tint, flip_x, flip_y, rotation, Some(sp.source_rect),
                         Some(SpriteGetSize(sp)), sp.pivot)>>
    ELSE <<>>

SpriteDraw(position, rotation, flip_x, flip_y) ==
    /\ SpriteLive
    /\ drawn' = SpriteDrawCalls(sprite, position, rotation, flip_x, flip_y)
    /\ last' = Op("Sprite::draw", <<position, rotation, flip_x, flip_y>>, None)
    /\ UNCHANGED <<built, player, sprite, panic, DEBUG>>

\* enabled: crate::debug::is_debug_draw_enabled()
SpriteDebugDraw(position, enabled) ==
    /\ SpriteLive
    /\ drawn' = IF enabled /\ ~sprite.is_deactivated
                THEN LET size == SpriteGetSize(sprite)
                     IN  <<DrawRectangleLines(position[1] + sprite.offset[1],
                                              position[2] + sprite.offset[2],
                                              size[1], size[2], 2, BLUE)>>
                ELSE <<>>
    /\ last' = Op("Sprite::debug_draw", <<position, enabled>>, None)
    /\ UNCHANGED <<built, player, sprite, panic, DEBUG>>

SpriteGetSizeOp ==
    /\ SpriteLive
    /\ last' = Op("Sprite::get_size", None, SpriteGetSize(sprite))
    /\ drawn' = <<>>
    /\ UNCHANGED <<built, player, sprite, panic, DEBUG>>

SetScale(scale) ==
    /\ SpriteLive
    /\ sprite' = [sprite EXCEPT !.scale = scale]
    /\ last' = Op("Sprite::set_scale", scale, None)
    /\ drawn' = <<>>
    /\ UNCHANGED <<built, player, panic, DEBUG>>

\* `pub is_deactivated`
SpriteSetDeactivated(b) ==
    /\ SpriteLive
    /\ sprite.is_deactivated # b
    /\ sprite' = [sprite EXCEPT !.is_deactivated = b]
    /\ last' = Op("Sprite::is_deactivated =", b, None)
    /\ drawn' = <<>>
    /\ UNCHANGED <<built, player, panic, DEBUG>>

SpriteConstruct ==
    /\ Unbuilt
    /\ \E params \in SpriteParams,
          lookup \in {None} \cup {Some(r) : r \in SpriteTextureResources},
          overflow_checks \in BOOLEAN :
          SpriteNew(params, lookup, overflow_checks)

SpriteNext ==
    \/ SpriteConstruct
    \/ \E position \in Positions, rotation \in Rotations, flip_x \in BOOLEAN, flip_y \in BOOLEAN :
          SpriteDraw(position, rotation, flip_x, flip_y)
    \/ \E position \in Positions, enabled \in BOOLEAN : SpriteDebugDraw(position, enabled)
    \/ SpriteGetSizeOp
    \/ \E scale \in 1..MaxScale : SetScale(scale)
    \/ \E b \in BOOLEAN : SpriteSetDeactivated(b)

Next == PlayerNext \/ SpriteNext

Spec == Init /\ [][Next]_vars

----------------------------------------------------------------------------
(* Properties *)

Selected(p) == At(p.sprite.animations, p.sprite.current_animation)
KnownId(p, id) == \E i \in 1..Len(p.animations) : p.animations[i].id = id
IndexOfId(p, id) == (CHOOSE i \in 1..Len(p.animations) : p.animations[i].id = id) - 1

\* C1: in every state of a constructed AnimationPlayer the selected animation
\* index is a valid index into the non-empty animation list and the current
\* frame index is strictly less than the selected animation's frame count.
C1_FrameInRange ==
    PlayerLive =>
        /\ Len(player.sprite.animations) > 0
        /\ player.sprite.current_animation \in 0..(Len(player.sprite.animations) - 1)
        /\ player.sprite.frame < Selected(player).frames

\* C2 (as stated): whenever set_animation(id) returns a descriptor, the
\* animation with that id is the selected one, the current frame index is 0
\* and the returned descriptor is that animation's.
C2_ResetsFrame ==
    (PlayerLive /\ last.op = "set_animation" /\ KnownId(player, last.arg)) =>
        /\ Selected(player).name = last.arg
        /\ player.sprite.frame = 0
        /\ IsSome(last.ret) /\ Unwrap(last.ret).id = last.arg

\* C2 (amended): for every id that matches an animation of the list,
\* set_animation(id) selects that animation and returns its descriptor; the
\* frame index is not reset but reduced modulo the frame count of the newly
\* selected animation (kept when it is in range); when that animation has no
\* frames the call panics on the remainder by zero.
C2_KeepsFrameModulo ==
    [][\A id \in Ids :
        (PlayerLive /\ last'.op = "set_animation" /\ last'.arg = id /\ KnownId(player, id)) =>
            LET i == IndexOfId(player, id)
                a == At(player.animations, i)
            IN  IF a.frames = 0
                THEN panic' # "" /\ player' = player
                ELSE /\ panic' = ""
                     /\ player'.sprite.current_animation = i
                     /\ player'.sprite.frame = player.sprite.frame % a.frames
                     /\ player'.sprite.time = player.sprite.time
                     /\ player'.sprite.playing = player.sprite.playing
                     /\ last'.ret = Some(a)]_vars

C2_Witness ==
    /\ PlayerLive /\ last.op = "set_animation" /\ IsSome(last.ret)
    /\ player.sprite.current_animation = 1
    /\ player.sprite.frame = 1

\* C3: for every id that matches no animation of the list, set_animation(id)
\* returns none and leaves the player (selected animation, frame index,
\* playing flag, accumulator) unchanged, and get_animation(id) returns none;
\* get_animation never changes the player, and neither call panics.
C3_LookupMiss ==
    [][\A id \in Ids \cup OtherIds :
        (PlayerLive /\ last'.op \in {"set_animation", "get_animation"} /\ last'.arg = id) =>
            /\ ~KnownId(player, id) => (last'.ret = None /\ player' = player /\ panic' = "")
            /\ last'.op = "get_animation" => (player' = player /\ panic' = "")]_vars

C3_Witness ==
    /\ PlayerLive /\ last.op = "set_animation" /\ ~KnownId(player, last.arg)
    /\ last.ret = None
    /\ player.sprite.current_animation = 1 /\ player.sprite.frame = 1 /\ player.sprite.time > 0

Ticking(p) == ~p.is_deactivated /\ p.sprite.playing

\* C4 (as stated): for an active, playing player whose selected animation has
\* fps = 10 (and at least one frame), an update() with an elapsed time of
\* 0.2s advances the frame index by exactly 2 modulo the frame count.
C4_AdvancesByTwo ==
    [][(PlayerLive /\ Ticking(player) /\ Selected(player).fps = 10
          /\ Selected(player).frames > 0
          /\ last'.op = "update" /\ last'.arg = 200) =>
            player'.sprite.frame = (player.sprite.frame + 2) % Selected(player).frames]_vars

\* C4 (amended): for an active, playing player whose selected animation has
\* fps = 10, an update() with an elapsed time of 0.2s advances the frame
\* index by exactly 1 modulo the frame count (frame_count-1 wraps to 0) and
\* clears the accumulator, for every starting frame index; when the selected
\* animation has no frames the update panics.
C4_AdvancesByOne ==
    [][(PlayerLive /\ Ticking(player) /\ Selected(player).fps = 10
          /\ last'.op = "update" /\ last'.arg = 200) =>
            IF Selected(player).frames = 0
            THEN panic' # ""
            ELSE /\ panic' = ""
                 /\ player'.sprite.frame = (player.sprite.frame + 1) % Selected(player).frames
                 /\ player'.sprite.time = 0
                 /\ player'.sprite.current_animation = player.sprite.current_animation]_vars

C4_Witness ==
    /\ PlayerLive /\ Ticking(player) /\ Selected(player).fps = 10
    /\ Selected(player).frames = 3
    /\ last.op = "update" /\ last.arg = 200
    /\ player.sprite.frame = 0

\* C5: while is_deactivated is true, update() changes nothing in the
\* AnimationPlayer, and draw() on an AnimationPlayer or on a Sprite issues no
\* draw call and changes no state, whatever its arguments.
C5_DeactivatedNoOp ==
    [][/\ (PlayerLive /\ player.is_deactivated /\ last'.op \in {"update", "draw"}) =>
            (player' = player /\ drawn' = <<>> /\ panic' = "")
       /\ (SpriteLive /\ sprite.is_deactivated /\ last'.op = "Sprite::draw") =>
            (sprite' = sprite /\ drawn' = <<>> /\ panic' = "")]_vars

C5_Witness ==
    /\ PlayerLive /\ player.is_deactivated /\ player.sprite.playing
    /\ last.op = "update"
    /\ Selected(player).fps = 10 /\ player.sprite.frame = 1

NewParams == last.arg.params
NewLookup == last.arg.lookup
SharedId(animations) ==
    \E i, j \in 1..Len(animations) : i # j /\ animations[i].id = animations[j].id

\* C6: AnimationPlayer construction fails fatally (no player is produced) when
\* the animation list is empty or two of its animations share an id; with a
\* known texture id and a non-empty list of pairwise distinct ids it succeeds
\* with the first animation selected, frame index 0, the internal descriptors
\* in the order of the input list, and playing = !is_deactivated.
C6_Construction ==
    last.op = "AnimationPlayer::new" =>
        /\ (NewParams.animations = <<>> \/ SharedId(NewParams.animations)) =>
              (panic # "" /\ built = "none" /\ player = NullPlayer)
        /\ (IsSome(NewLookup) /\ NewParams.animations # <<>> /\ ~SharedId(NewParams.animations)) =>
              /\ panic = "" /\ built = "AnimationPlayer"
              /\ player.sprite.current_animation = 0
              /\ player.sprite.frame = 0
              /\ Len(player.sprite.animations) = Len(NewParams.animations)
              /\ \A i \in 1..Len(NewParams.animations) :
                    /\ player.sprite.animations[i].name = NewParams.animations[i].id
                    /\ player.sprite.animations[i].row = NewParams.animations[i].row
                    /\ player.sprite.animations[i].frames = NewParams.animations[i].frames
                    /\ player.sprite.animations[i].fps = NewParams.animations[i].fps
              /\ player.animations = NewParams.animations
              /\ player.sprite.playing = ~NewParams.is_deactivated
              /\ player.is_deactivated = NewParams.is_deactivated

C6_Witness ==
    /\ last.op = "AnimationPlayer::new" /\ PlayerLive
    /\ Len(player.animations) = 2
    /\ player.animations[1].id = "run"
    /\ player.animations[1].frames # player.animations[2].frames
    /\ player.is_deactivated /\ ~player.sprite.playing

CellSize == SpriteSize(NewParams, Unwrap(NewLookup))
TexSize == <<Unwrap(NewLookup).texture.width, Unwrap(NewLookup).texture.height>>
\* integer division; a cell of size 0 has no quotient and no cell fits
CellsAlong(t, c) == IF c = 0 THEN 0 ELSE t \div c
grid_width == CellsAlong(TexSize[1], CellSize[1])
grid_height == CellsAlong(TexSize[2], CellSize[2])

RectOfIndex ==
    <<(NewParams.index % grid_width) * CellSize[1],
      (NewParams.index \div grid_width) * CellSize[2],
      CellSize[1], CellSize[2]>>

InsideTexture(rect) ==
    /\ rect[1] >= 0 /\ rect[2] >= 0
    /\ rect[1] + rect[3] <= TexSize[1]
    /\ rect[2] + rect[4] <= TexSize[2]

SpriteNewOutcome ==
    /\ NewParams.index >= grid_width * grid_height =>
          (panic # "" /\ built = "none" /\ sprite = NullSprite)
    /\ NewParams.index < grid_width * grid_height =>
          /\ panic = "" /\ built = "Sprite"
          /\ sprite.source_rect = RectOfIndex
          /\ InsideTexture(sprite.source_rect)

\* C7 (as stated): for every texture size, cell size and index, Sprite
\* construction fails whenever index >= grid_width * grid_height (also when
\* the grid has no cells), and for index < grid_width * grid_height succeeds
\* with the source rectangle (index % grid_width * cell_w,
\* index / grid_width * cell_h, cell_w, cell_h), inside the texture.
C7_EveryCellSize ==
    (last.op = "Sprite::new" /\ IsSome(NewLookup)) => SpriteNewOutcome

\* C7 (amended): the same for every texture size, every index and every cell
\* size whose width and height are both at least 1.
C7_PositiveCellSize ==
    (last.op = "Sprite::new" /\ IsSome(NewLookup) /\ CellSize[1] >= 1 /\ CellSize[2] >= 1) =>
        SpriteNewOutcome

C7_Witness ==
    /\ last.op = "Sprite::new" /\ SpriteLive
    /\ NewParams.index = 4
    /\ sprite.source_rect[1] > 0 /\ sprite.source_rect[2] > 0
    /\ sprite.source_rect[3] = 1 /\ sprite.source_rect[4] = 1

FlipX == last.arg[3]
FlipY == last.arg[4]

\* the pivot (px, py) mirrored in a destination of size (w, h)
Mirrored(pivot, size) ==
    IF FlipX /\ FlipY THEN <<size[1] - pivot[1], size[2] - pivot[2]>>
    ELSE IF FlipX THEN <<size[1] - pivot[1], pivot[2]>>
    ELSE IF FlipY THEN <<pivot[1], size[2] - pivot[2]>>
    ELSE pivot

PlayerDrawMirrors ==
    (PlayerLive /\ last.op = "draw" /\ drawn # <<>>) =>
        drawn[1].pivot = Some(Mirrored(player.pivot, Unwrap(drawn[1].dest_size)))

PivotKept ==
    [][/\ (PlayerLive /\ panic' = "") => player'.pivot = player.pivot
       /\ (SpriteLive /\ panic' = "") => sprite'.pivot = sprite.pivot]_vars

\* C8 (as stated): the pivot passed to the draw call is the configured pivot
\* mirrored across the axes whose flip flag is set, (w-px, py), (px, h-py),
\* (w-px, h-py) or (px, py), in the draw of AnimationPlayer and of Sprite.
C8_BothMirror ==
    /\ PlayerDrawMirrors
    /\ (SpriteLive /\ last.op = "Sprite::draw" /\ drawn # <<>> /\ IsSome(sprite.pivot)) =>
          drawn[1].pivot = Some(Mirrored(Unwrap(sprite.pivot), Unwrap(drawn[1].dest_size)))

\* C8 (amended): the draw of AnimationPlayer passes the configured pivot
\* mirrored across the axes whose flip flag is set; the draw of Sprite passes
\* the stored pivot unchanged whatever the flip flags; neither modifies the
\* stored pivot.
C8_PlayerMirrorsSpriteKeeps ==
    /\ []PlayerDrawMirrors
    /\ []((SpriteLive /\ last.op = "Sprite::draw" /\ drawn # <<>>) =>
             drawn[1].pivot = sprite.pivot)
    /\ PivotKept

C8_Witness ==
    /\ PlayerLive /\ last.op = "draw" /\ FlipX /\ FlipY /\ drawn # <<>>
    /\ drawn[1].pivot = Some(<<3, 2>>)
    /\ player.pivot = <<1, 2>>

\* C9: play() sets and stop() clears the playing flag and neither changes the
\* selected animation, the frame index or the deactivated flag; while stopped,
\* update() leaves the frame index unchanged; is_playing() returns
\* playing && !is_deactivated.
C9_PlayStop ==
    [][/\ (PlayerLive /\ last'.op \in {"play", "stop"}) =>
            /\ player'.sprite.playing = (last'.op = "play")
            /\ player'.sprite.current_animation = player.sprite.current_animation
            /\ player'.sprite.frame = player.sprite.frame
            /\ player'.is_deactivated = player.is_deactivated
            /\ panic' = ""
       /\ (PlayerLive /\ ~player.sprite.playing /\ last'.op = "update") =>
            player'.sprite.frame = player.sprite.frame
       /\ (PlayerLive /\ last'.op = "is_playing") =>
            last'.ret = (player.sprite.playing /\ ~player.is_deactivated)]_vars

----------------------------------------------------------------------------
(* An active player on which, after construction and an optional            *)
(* set_animation / set_frame, only update() is called, forever             *)

LiveNext ==
    \/ PlayerConstruct
    \/ (last.op = "AnimationPlayer::new" /\ \E id \in Ids : SetAnimation(id))
    \/ (last.op \in {"AnimationPlayer::new", "set_animation"}
          /\ \E frame \in 0..MaxFrameArg : SetFrame(frame))
    \/ \E dt \in Deltas : Update(dt)

LiveSpec == Init /\ [][LiveNext]_vars /\ WF_vars(\E dt \in Deltas : Update(dt))

\* the player is active and playing and only updates follow
Looping == PlayerLive /\ Ticking(player) /\ last.op = "update"

WrapsToZero ==
    [][(Looping /\ last'.op = "update" /\ panic' = ""
          /\ player.sprite.frame = Selected(player).frames - 1
          /\ player'.sprite.frame # player.sprite.frame) =>
            player'.sprite.frame = 0]_vars

\* C10 (as stated): for every constructed animation, an active, playing
\* player that is only updated loops for ever: from every state the frame
\* index eventually advances, the frame after frame_count-1 is 0, and frame 0
\* is reached again and again.
C10_EveryAnimationLoops ==
    /\ \A f \in 0..(MaxFrameArg + 1) :
          (Looping /\ player.sprite.frame = f) ~> (PlayerLive /\ player.sprite.frame # f)
    /\ Looping ~> (PlayerLive /\ last.op = "update" /\ player.sprite.frame = 0)
    /\ WrapsToZero

Animated(p) == Selected(p).fps >= 1 /\ Selected(p).frames >= 1

\* C10 (amended): the same for every selected animation with fps >= 1 and at
\* least one frame: the frame index eventually becomes its successor modulo
\* the frame count, the frame after frame_count-1 is 0 and frame 0 is reached
\* again and again.  With fps = 0 no update ever advances the frame index,
\* and with a frame count of 0 the first update panics.
C10_AnimatedLoops ==
    /\ \A f \in 0..(MaxFrameArg + 1) :
          (Looping /\ Animated(player) /\ player.sprite.frame = f)
              ~> (PlayerLive /\ Animated(player)
                    /\ player.sprite.frame = (f + 1) % Selected(player).frames)
    /\ (Looping /\ Animated(player))
          ~> (PlayerLive /\ last.op = "update" /\ player.sprite.frame = 0)
    /\ WrapsToZero
    /\ [][(PlayerLive /\ Ticking(player) /\ last'.op = "update") =>
             /\ (Selected(player).fps = 0 /\ Selected(player).frames >= 1) =>
                   player'.sprite.frame = player.sprite.frame % Selected(player).frames
             /\ Selected(player).frames = 0 => panic' # ""]_vars

C10_Witness ==
    /\ Looping /\ Animated(player) /\ Selected(player).frames = 3
    /\ player.sprite.current_animation = 1
    /\ last.op = "update" /\ last.arg = 100
    /\ player.sprite.frame = 0 /\ player.sprite.time = 0

====
